---- MODULE Spec2Model ----
(***************************************************************************)
(* Model of builder/source/simple.go: SimpleSource, its two transfer       *)
(* backends (curl and FTP) and Fetch, which stages a download, hashes it   *)
(* and moves it into the hash-keyed source directory.                      *)
(*                                                                         *)
(* The file system is modelled at the granularity of the system calls the  *)
(* code makes: os.Create, Write, ReadFile, MkdirAll, Rename and Symlink    *)
(* are each one atomic step; everything between two of them can be         *)
(* interleaved with another process's steps, or be cut by a crash.         *)
(*                                                                         *)
(* Spec runs the build invocations concurrently, SpecSeq one Fetch at a    *)
(* time; SpecURI applies NewSimple, download and the FTP login to URIs of  *)
(* every shape, away from the file system.                                 *)
(***************************************************************************)
EXTENDS Integers, Sequences, FiniteSets, TLC

(* ------------------------------ bounds -------------------------------- *)

\* Number of chunks (Write calls) a complete artifact is transferred in.
FileLen == 2

\* Largest number of entries an FTP LIST answer carries.
MaxEntries == 2

\* Number of Fetch calls made in one behaviour.
MaxFetches == 2

\* Longest URI path, in characters, handed to NewSimple on its own.
MaxPathLen == 3

\* The processes (build invocations) sharing the source directory.
Procs == {"p1", "p2"}

(* --------------------------- files and hashes -------------------------- *)

\* A chunk of zero bytes: what a write past the end of a file leaves behind.
Zero == "0"

\* The complete artifact made of the bytes x.
Artifact(x) == [i \in 1..FileLen |-> x]

\* crypto/sha256 is taken to be collision free: the digest names the bytes.
SHA256Hex(data) == <<"sha256", data>>

\* crypto/sha1 is not collision resistant: the artifacts "b" and "c" are a
\* colliding pair; every other content has a digest of its own.
SHA1Hex(data) == <<"sha1", IF data = Artifact("c") THEN Artifact("b") ELSE data>>

\* url.URL.User of a URI without user information (nil), and of one with it.
\* PasswordSet is the second result of Userinfo.Password().
NoUser == [set |-> FALSE, Username |-> "", PasswordSet |-> FALSE, Password |-> ""]
UserInfo(name, pwdSet, pwd) ==
    [set |-> TRUE, Username |-> name, PasswordSet |-> pwdSet, Password |-> pwd]

\* The URIs handed to NewSimple, as url.Parse splits them (a path is the
\* sequence of its characters), and the bytes the server at each delivers.
URIs ==
    { [Scheme |-> "http", Path |-> <<"/", "p", "/", "f">>, User |-> NoUser,
       Body |-> "a"],
      [Scheme |-> "ftp",  Path |-> <<"/", "q", "/", "f">>, User |-> NoUser,
       Body |-> "b"],
      [Scheme |-> "http", Path |-> <<"/", "p", "/", "g">>, User |-> NoUser,
       Body |-> "c"] }

\* filepath.Base, first loop: the path without its trailing separators.
RECURSIVE StripSlashes(_)
StripSlashes(path) ==
    IF path # <<>> /\ path[Len(path)] = "/"
    THEN StripSlashes(SubSeq(path, 1, Len(path) - 1))
    ELSE path

\* filepath.Base, second loop: the index of the last separator at or before
\* i, or 0 when there is none.
RECURSIVE LastSlash(_, _)
LastSlash(path, i) ==
    IF i >= 1 /\ path[i] # "/" THEN LastSlash(path, i - 1) ELSE i

\* A Base that takes whatever follows the last separator, "." when the path
\* is empty.
BaseOfSuffix(path) ==
    IF path = <<>> THEN <<".">>
    ELSE SubSeq(path, LastSlash(path, Len(path)) + 1, Len(path))

\* filepath.Base(path): "." for the empty path, "/" for a path of separators
\* only, otherwise the last element once trailing separators are dropped.
Base(path) ==
    IF path = <<>> THEN <<".">>
    ELSE LET stripped == StripSlashes(path)
             i == LastSlash(stripped, Len(stripped))
             elem == SubSeq(stripped, i + 1, Len(stripped))
         IN  IF elem = <<>> THEN <<"/">> ELSE elem

\* The bytes the server delivers for a source.
Remote(src) == Artifact(src.URI.Body)

\* A digest of bytes no server delivers: a validator that matches nothing.
Unmatched == SHA256Hex(<<"x">>)

\* The validators a caller passes with a URI: the digest of the artifact the
\* package format records (SHA-1 in a legacy pspec, SHA-256 otherwise), or,
\* in the current format, a digest of something else. Fetch never reads the
\* validator, so one format is enough to have sources whose validator does
\* not match what the server delivers.
Validators(uri, legacy) ==
    IF legacy THEN {SHA1Hex(Artifact(uri.Body))}
    ELSE {SHA256Hex(Artifact(uri.Body)), Unmatched}

\* No SimpleSource has been constructed.
NoSource ==
    [URI |-> [Scheme |-> "", Path |-> <<>>, User |-> NoUser, Body |-> ""],
     File |-> <<>>,
     legacy |-> FALSE, validator |-> <<"none">>]

\* NewSimple(uri, validator, legacy)
NewSimple(uri, validator, legacy) ==
    [URI |-> uri, File |-> Base(uri.Path), legacy |-> legacy,
     validator |-> validator]

(* ------------------------------- state --------------------------------- *)

VARIABLES
    s,          \* s[p]: the SimpleSource of process p, or NoSource
    pc,         \* pc[p]: where p is inside Fetch
    ret,        \* ret[p]: what the Fetch call returned: "ok", an error, "none"
    crashed,    \* crashed[p]: p was interrupted where pc[p] says
    stagingDir, \* SourceStagingDir exists
    staging,    \* staging[f]: the content of SourceStagingDir/f, if present
    dirs,       \* the h for which SourceDir/h is a directory
    store,      \* store[<<h, f>>]: the content of SourceDir/h/f, if present
    links,      \* links[n] = h: SourceDir/n is a symbolic link to h
    out,        \* out[p]: the destination file handle of the backend
    conn,       \* conn[p]: the FTP control connection
    entries,    \* entries[p]: len(entries) of the FTP listing, -1 before it
    hash,       \* hash[p]: Fetch's local variable hash
    sha,        \* sha[p]: Fetch's local variable sha
    calls,      \* number of Fetch calls so far
    fetched,    \* fetched[p]: a Fetch of s[p] has returned success
    cached,     \* cached[p]: IsFetched() held when the running Fetch began
    before,     \* the source directory when the latest Fetch began
    peers,      \* peers[p]: the sources of the Fetch calls that ran during p's
    first,      \* first[p]: the first step of the running Fetch that failed
    quits,      \* quits[p]: the client.Quit() calls of the running backend
    input,      \* a URI given to NewSimple, download and Login on their own
    result      \* what each of the three made of input

vars == <<s, pc, ret, crashed, stagingDir, staging, dirs, store, links, out,
          conn, entries, hash, sha, calls, fetched, cached, before, peers,
          first, quits, input, result>>

\* A partial function with k bound to v, and with k removed.
Put(fn, k, v) == [x \in (DOMAIN fn) \cup {k} |-> IF x = k THEN v ELSE fn[x]]
Del(fn, k) == [x \in (DOMAIN fn) \ {k} |-> fn[x]]
Empty == [x \in {} |-> x]

\* Where a file is: in the staging directory, in the directory h of the source
\* directory, or nowhere any more (replaced by a rename while still open).
InStaging(f) == [dir |-> "staging", h |-> <<"none">>, f |-> f]
InStore(h, f) == [dir |-> "store", h |-> h, f |-> f]
Orphan(f) == [dir |-> "orphan", h |-> <<"none">>, f |-> f]

Closed == [open |-> FALSE, at |-> Orphan(<<>>), off |-> 0]

\* The handle os.Create returns: positioned at offset 0 of the file at `at`.
Handle(at) == [open |-> TRUE, at |-> at, off |-> 0]

NoHash == <<"none">>

\* No step has failed.
NoError == [step |-> "none", err |-> "none"]

\* Nothing has been computed from input: no file name, no backend chosen, no
\* credentials sent.
NoResult ==
    [stage |-> "none", File |-> <<>>, backend |-> "none", username |-> "",
     password |-> ""]

(* ------------------------------ paths ---------------------------------- *)

\* The directory SourceDir/name, after following a symbolic link.
Resolve(name) == IF name \in DOMAIN links THEN links[name] ELSE name

\* PathExists(SourceDir/name)
DirExists(name) == Resolve(name) \in dirs

\* GetPath(hash): SourceDir/hash/File, after following a symbolic link.
GetPath(src, h) == <<Resolve(h), src.File>>

\* PathExists of a path under SourceDir.
PathExists(path) == path \in DOMAIN store

\* IsFetched()
IsFetched(src) == PathExists(GetPath(src, src.validator))

\* GetBindConfiguration(rootfs).BindSource
BindSource(src) == GetPath(src, src.validator)

InitFetch ==
    /\ s = [p \in Procs |-> NoSource]
    /\ pc = [p \in Procs |-> "idle"]
    /\ ret = [p \in Procs |-> "none"]
    /\ crashed = [p \in Procs |-> FALSE]
    /\ stagingDir = FALSE
    /\ staging = Empty
    /\ dirs = {}
    /\ store = Empty
    /\ links = Empty
    /\ out = [p \in Procs |-> Closed]
    /\ conn = [p \in Procs |-> "none"]
    /\ entries = [p \in Procs |-> -1]
    /\ hash = [p \in Procs |-> NoHash]
    /\ sha = [p \in Procs |-> NoHash]
    /\ calls = 0
    /\ fetched = [p \in Procs |-> FALSE]
    /\ cached = [p \in Procs |-> FALSE]
    /\ before = [staging |-> Empty, dirs |-> {}, store |-> Empty, links |-> Empty]
    /\ peers = [p \in Procs |-> {}]
    /\ first = [p \in Procs |-> NoError]
    /\ quits = [p \in Procs |-> 0]

Init ==
    /\ InitFetch
    /\ input = NoSource.URI
    /\ result = NoResult

(* --------------------------- file operations --------------------------- *)

\* The content of a file after one chunk is written at offset off: a write
\* inside the file replaces, a write past its end fills the gap with zeros.
WriteAt(data, off, chunk) ==
    [i \in 1..(IF off + 1 > Len(data) THEN off + 1 ELSE Len(data)) |->
        IF i = off + 1 THEN chunk
        ELSE IF i <= Len(data) THEN data[i] ELSE Zero]

\* out.Write(chunk) by p: the write lands in the file the handle refers to,
\* wherever a rename has moved that file in the meantime.
Write(p, chunk) ==
    LET o == out[p] IN
    /\ out' = [out EXCEPT ![p].off = @ + 1]
    /\ staging' = IF o.at.dir = "staging"
                  THEN [staging EXCEPT ![o.at.f] = WriteAt(@, o.off, chunk)]
                  ELSE staging
    /\ store' = IF o.at.dir = "store"
                THEN [store EXCEPT ![<<o.at.h, o.at.f>>] = WriteAt(@, o.off, chunk)]
                ELSE store

\* os.Create(destination) by p: the file is created, or truncated in place.
Create(p, f) ==
    /\ staging' = Put(staging, f, <<>>)
    /\ out' = [out EXCEPT ![p] = Handle(InStaging(f))]

\* The handles after os.Rename(staging/f, SourceDir/h/f): those of the moved
\* file follow it, those of a file it replaced refer to no path any more.
Moved(h, f) ==
    [q \in Procs |->
        IF out[q].open /\ out[q].at = InStaging(f)
        THEN [out[q] EXCEPT !.at = InStore(h, f)]
        ELSE IF out[q].open /\ out[q].at = InStore(h, f)
        THEN [out[q] EXCEPT !.at = Orphan(f)]
        ELSE out[q]]

\* ioutil.ReadFile(SourceStagingDir/f) can succeed.
Readable(f) == f \in DOMAIN staging

\* A GetSHA256Sum that computes what its comment says, the sha1sum.
GetSHA256SumAsSHA1(f) == SHA1Hex(staging[f])

\* GetSHA256Sum(destPath), for a readable file.
GetSHA256Sum(f) == SHA256Hex(staging[f])

\* GetSHA1Sum(dest), for a readable file.
GetSHA1Sum(dest) == SHA1Hex(store[dest])

\* A download that knows its schemes and rejects the others.
downloadKnown(src) ==
    IF src.URI.Scheme = "ftp" THEN "ftp_dial"
    ELSE IF src.URI.Scheme \in {"http", "https"} THEN "curl_create"
    ELSE "done"

\* download(destination): the first step of the backend the scheme selects.
download(src) == IF src.URI.Scheme = "ftp" THEN "ftp_dial" ELSE "curl_create"

\* A downloadFTP without the else branch: the password stays "anonymous"
\* when the URI names a user and no password.
CredentialsDefaulted(user) ==
    [username |-> IF user.set THEN user.Username ELSE "anonymous",
     password |-> IF user.set /\ user.PasswordSet THEN user.Password
                  ELSE "anonymous"]

\* downloadFTP: the username and password it hands to client.Login.
Credentials(user) ==
    IF ~user.set
    THEN [username |-> "anonymous", password |-> "anonymous"]
    ELSE [username |-> user.Username,
          password |-> IF user.PasswordSet THEN user.Password ELSE ""]

\* A test of the listing that only rejects the empty one.
SomeEntry(n) == n >= 1

\* downloadFTP's test of the listing: exactly one entry.
OneEntry(n) == n = 1

\* A symlink call that replaces whatever is at tgtLink (ln -sf).
LinkForced(name) == TRUE

\* os.Symlink(hash, tgtLink) finds nothing at tgtLink.
LinkFree(name) == name \notin DOMAIN links /\ name \notin dirs

\* A Fetch that never takes the legacy branch.
LegacyIgnored(src) == FALSE

\* Fetch's test `if s.legacy`.
Legacy(src) == src.legacy

(* ------------------------------- actions ------------------------------- *)

fsVars == <<stagingDir, staging, dirs, store, links>>

\* A Fetch that logs the error of a step and returns nil.
ReturnNil(p, r) ==
    /\ pc' = [pc EXCEPT ![p] = "done"]
    /\ ret' = [ret EXCEPT ![p] = "ok"]
    /\ fetched' = [fetched EXCEPT ![p] = TRUE]
    /\ first' = [first EXCEPT ![p] =
                    IF r # "ok" /\ @ = NoError
                    THEN [step |-> pc[p], err |-> r] ELSE @]

\* Fetch returns r: "ok" for nil, or the error. "EIO" stands for the errors
\* the environment decides (network, permissions, disk); "ENOENT", "EEXIST"
\* and "ECOUNT" are decided by the state the call finds.
Return(p, r) ==
    /\ pc' = [pc EXCEPT ![p] = "done"]
    /\ ret' = [ret EXCEPT ![p] = r]
    /\ fetched' = [fetched EXCEPT ![p] = @ \/ r = "ok"]
    /\ first' = [first EXCEPT ![p] =
                    IF r # "ok" /\ @ = NoError
                    THEN [step |-> pc[p], err |-> r] ELSE @]

Goto(p, label) ==
    /\ pc' = [pc EXCEPT ![p] = label]
    /\ UNCHANGED <<ret, fetched, first>>

Running(p, label) == pc[p] = label /\ ~crashed[p]

\* The processes that are inside Fetch.
InFetch == { q \in Procs : pc[q] \notin {"idle", "done"} /\ ~crashed[q] }

NoSnapshot == [staging |-> Empty, dirs |-> {}, store |-> Empty, links |-> Empty]

\* The call's local variables, handles and records go out of scope.
Locals(p) ==
    /\ out' = [out EXCEPT ![p] = Closed]
    /\ conn' = [conn EXCEPT ![p] = "none"]
    /\ entries' = [entries EXCEPT ![p] = -1]
    /\ hash' = [hash EXCEPT ![p] = NoHash]
    /\ sha' = [sha EXCEPT ![p] = NoHash]
    /\ cached' = [cached EXCEPT ![p] = FALSE]
    /\ before' = NoSnapshot
    /\ peers' = [peers EXCEPT ![p] = {}]
    /\ quits' = [quits EXCEPT ![p] = 0]

\* A caller constructs a SimpleSource.
Construct(p) ==
    /\ Running(p, "idle")
    /\ calls < MaxFetches
    /\ \E uri \in URIs, legacy \in BOOLEAN :
         \E validator \in Validators(uri, legacy) :
            /\ s' = [s EXCEPT ![p] = NewSimple(uri, validator, legacy)]
            /\ s'[p] # s[p]
    /\ fetched' = [fetched EXCEPT ![p] = FALSE]
    /\ UNCHANGED <<pc, ret, first, crashed, fsVars, out, conn, quits, entries,
                   hash, sha, calls, cached, before, peers>>
    /\ UNCHANGED <<input, result>>

\* Fetch is called: destPath := SourceStagingDir/File.
FetchCall(p) ==
    /\ Running(p, "idle")
    /\ s[p] # NoSource
    /\ calls < MaxFetches
    /\ calls' = calls + 1
    /\ Goto(p, "stage")
    /\ cached' = [cached EXCEPT ![p] = IsFetched(s[p])]
    /\ before' = [staging |-> staging, dirs |-> dirs, store |-> store,
                  links |-> links]
    /\ peers' = [q \in Procs |->
                    IF q = p THEN { s[r] : r \in InFetch \ {p} }
                    ELSE IF q \in InFetch THEN peers[q] \cup {s[p]}
                    ELSE peers[q]]
    /\ UNCHANGED <<s, crashed, fsVars, out, conn, quits, entries, hash, sha>>
    /\ UNCHANGED <<input, result>>

\* Check staging is available, then enter the backend.
Stage(p) ==
    /\ Running(p, "stage")
    /\ \/ /\ stagingDir
          /\ Goto(p, download(s[p]))
          /\ UNCHANGED stagingDir
       \/ /\ ~stagingDir
          /\ stagingDir' = TRUE
          /\ Goto(p, download(s[p]))
       \/ /\ ~stagingDir
          /\ Return(p, "EIO")
          /\ UNCHANGED stagingDir
    /\ UNCHANGED <<s, crashed, staging, dirs, store, links, out, conn, quits,
                   entries, hash, sha, calls, cached, before, peers>>
    /\ UNCHANGED <<input, result>>

\* downloadCurl: out, err := os.Create(destination)
CurlCreate(p) ==
    /\ Running(p, "curl_create")
    /\ \/ /\ Create(p, s[p].File)
          /\ Goto(p, "curl_perform")
       \/ /\ Return(p, "EIO")
          /\ UNCHANGED <<staging, out>>
    /\ UNCHANGED <<s, crashed, stagingDir, dirs, store, links, conn, quits,
                   entries, hash, sha, calls, cached, before, peers>>
    /\ UNCHANGED <<input, result>>

\* downloadCurl: hnd.Perform(), which calls writer once per chunk. The file
\* is not closed on any path.
CurlPerform(p) ==
    /\ Running(p, "curl_perform")
    /\ \/ /\ out[p].off < FileLen
          /\ Write(p, Remote(s[p])[out[p].off + 1])
          /\ UNCHANGED <<pc, ret, first, fetched>>
       \/ /\ Return(p, "EIO")
          /\ UNCHANGED <<staging, store, out>>
       \/ /\ out[p].off = FileLen
          /\ Goto(p, "hash")
          /\ UNCHANGED <<staging, store, out>>
    /\ UNCHANGED <<s, crashed, stagingDir, dirs, links, conn, quits, entries,
                   hash, sha, calls, cached, before, peers>>
    /\ UNCHANGED <<input, result>>

\* A Fetch that goes on to hash the staged file whatever downloadFTP returned.
FtpExitSwallowed(p, r) ==
    /\ out' = [out EXCEPT ![p] = Closed]
    /\ conn' = [conn EXCEPT ![p] = "quit"]
    /\ quits' = [quits EXCEPT ![p] = @ + 1]
    /\ pc' = [pc EXCEPT ![p] = "hash"]
    /\ first' = [first EXCEPT ![p] =
                    IF r # "ok" THEN [step |-> pc[p], err |-> r] ELSE @]
    /\ UNCHANGED <<ret, fetched>>

\* A downloadFTP that closes the file and leaves the connection to the
\* server's timeout.
FtpExitNoQuit(p, r) ==
    /\ out' = [out EXCEPT ![p] = Closed]
    /\ UNCHANGED <<conn, quits>>
    /\ IF r = "ok" THEN Goto(p, "hash") ELSE Return(p, r)

\* downloadFTP returns r: the deferred out.Close(), resp.Close() and
\* client.Quit() run.
FtpExit(p, r) ==
    /\ out' = [out EXCEPT ![p] = Closed]
    /\ conn' = [conn EXCEPT ![p] = "quit"]
    /\ quits' = [quits EXCEPT ![p] = @ + 1]
    /\ IF r = "ok" THEN Goto(p, "hash") ELSE Return(p, r)

\* downloadFTP: ftp.DialTimeout
FtpDial(p) ==
    /\ Running(p, "ftp_dial")
    /\ \/ /\ conn' = [conn EXCEPT ![p] = "open"]
          /\ Goto(p, "ftp_login")
          /\ UNCHANGED quits
       \/ /\ Return(p, "EIO")
          /\ UNCHANGED <<conn, quits>>
    /\ UNCHANGED <<s, crashed, fsVars, out, entries, hash, sha, calls, cached,
                   before, peers>>
    /\ UNCHANGED <<input, result>>

\* downloadFTP: client.Login
FtpLogin(p) ==
    /\ Running(p, "ftp_login")
    /\ \/ /\ Goto(p, "ftp_list")
          /\ UNCHANGED <<out, conn, quits>>
       \/ FtpExit(p, "EIO")
    /\ UNCHANGED <<s, crashed, fsVars, entries, hash, sha, calls, cached,
                   before, peers>>
    /\ UNCHANGED <<input, result>>

\* downloadFTP: client.List and the test of len(entries)
FtpList(p) ==
    /\ Running(p, "ftp_list")
    /\ \/ /\ FtpExit(p, "EIO")
          /\ UNCHANGED entries
       \/ \E n \in 0..MaxEntries :
            /\ entries' = [entries EXCEPT ![p] = n]
            /\ IF OneEntry(n)
               THEN Goto(p, "ftp_retr") /\ UNCHANGED <<out, conn, quits>>
               ELSE FtpExit(p, "ECOUNT")
    /\ UNCHANGED <<s, crashed, fsVars, hash, sha, calls, cached, before,
                   peers>>
    /\ UNCHANGED <<input, result>>

\* downloadFTP: client.Retr
FtpRetr(p) ==
    /\ Running(p, "ftp_retr")
    /\ \/ /\ Goto(p, "ftp_create")
          /\ UNCHANGED <<out, conn, quits>>
       \/ FtpExit(p, "EIO")
    /\ UNCHANGED <<s, crashed, fsVars, entries, hash, sha, calls, cached,
                   before, peers>>
    /\ UNCHANGED <<input, result>>

\* downloadFTP: out, err := os.Create(destination)
FtpCreate(p) ==
    /\ Running(p, "ftp_create")
    /\ \/ /\ Create(p, s[p].File)
          /\ Goto(p, "ftp_copy")
          /\ UNCHANGED <<conn, quits>>
       \/ /\ FtpExit(p, "EIO")
          /\ UNCHANGED staging
    /\ UNCHANGED <<s, crashed, stagingDir, dirs, store, links, entries, hash,
                   sha, calls, cached, before, peers>>
    /\ UNCHANGED <<input, result>>

\* downloadFTP: io.Copy(out, reader), one Write per chunk.
FtpCopy(p) ==
    /\ Running(p, "ftp_copy")
    /\ \/ /\ out[p].off < FileLen
          /\ Write(p, Remote(s[p])[out[p].off + 1])
          /\ UNCHANGED <<pc, ret, first, fetched, conn, quits>>
       \/ /\ FtpExit(p, "EIO")
          /\ UNCHANGED <<staging, store>>
       \/ /\ out[p].off = FileLen
          /\ FtpExit(p, "ok")
          /\ UNCHANGED <<staging, store>>
    /\ UNCHANGED <<s, crashed, stagingDir, dirs, links, entries, hash, sha,
                   calls, cached, before, peers>>
    /\ UNCHANGED <<input, result>>

\* hash, err := s.GetSHA256Sum(destPath)
Hash(p) ==
    /\ Running(p, "hash")
    /\ \/ /\ Readable(s[p].File)
          /\ hash' = [hash EXCEPT ![p] = GetSHA256Sum(s[p].File)]
          /\ Goto(p, "mkdir")
       \/ /\ Return(p, IF Readable(s[p].File) THEN "EIO" ELSE "ENOENT")
          /\ UNCHANGED hash
    /\ UNCHANGED <<s, crashed, fsVars, out, conn, quits, entries, sha, calls,
                   cached, before, peers>>
    /\ UNCHANGED <<input, result>>

\* Make the target directory SourceDir/hash.
MkdirTarget(p) ==
    /\ Running(p, "mkdir")
    /\ \/ /\ DirExists(hash[p])
          /\ Goto(p, "rename")
          /\ UNCHANGED dirs
       \/ /\ ~DirExists(hash[p])
          /\ dirs' = dirs \cup {hash[p]}
          /\ Goto(p, "rename")
       \/ /\ ~DirExists(hash[p])
          /\ Return(p, "EIO")
          /\ UNCHANGED dirs
    /\ UNCHANGED <<s, crashed, stagingDir, staging, store, links, out, conn,
                   quits, entries, hash, sha, calls, cached, before, peers>>
    /\ UNCHANGED <<input, result>>

\* The directory Fetch moves the staged file into.
TgtDir(h) == Resolve(h)

\* The staging directory after a copy of staging/f into the source directory.
Copied(f) == staging

\* The staging directory after os.Rename(staging/f, dest): f is gone from it.
Renamed(f) == Del(staging, f)

\* os.Rename(destPath, dest): move from staging into the hash directory.
Rename(p) ==
    /\ Running(p, "rename")
    /\ LET f == s[p].File
           h == TgtDir(hash[p])
       IN  \/ /\ f \in DOMAIN staging
              /\ h \in dirs
              /\ store' = Put(store, <<h, f>>, staging[f])
              /\ staging' = Renamed(f)
              /\ out' = Moved(h, f)
              /\ IF Legacy(s[p]) THEN Goto(p, "sha1") ELSE Return(p, "ok")
           \/ /\ Return(p, IF f \in DOMAIN staging THEN "EIO" ELSE "ENOENT")
              /\ UNCHANGED <<staging, store, out>>
    /\ UNCHANGED <<s, crashed, stagingDir, dirs, links, conn, quits, entries,
                   hash, sha, calls, cached, before, peers>>
    /\ UNCHANGED <<input, result>>

\* sha, err := s.GetSHA1Sum(dest)
Sha1(p) ==
    /\ Running(p, "sha1")
    /\ LET dest == <<TgtDir(hash[p]), s[p].File>>
       IN  \/ /\ dest \in DOMAIN store
              /\ sha' = [sha EXCEPT ![p] = GetSHA1Sum(dest)]
              /\ Goto(p, "symlink")
           \/ /\ Return(p, IF dest \in DOMAIN store THEN "EIO" ELSE "ENOENT")
              /\ UNCHANGED sha
    /\ UNCHANGED <<s, crashed, fsVars, out, conn, quits, entries, hash, calls,
                   cached, before, peers>>
    /\ UNCHANGED <<input, result>>

\* os.Symlink(hash, SourceDir/sha)
Symlink(p) ==
    /\ Running(p, "symlink")
    /\ \/ /\ LinkFree(sha[p])
          /\ links' = Put(links, sha[p], hash[p])
          /\ Return(p, "ok")
       \/ /\ Return(p, IF LinkFree(sha[p]) THEN "EIO" ELSE "EEXIST")
          /\ UNCHANGED links
    /\ UNCHANGED <<s, crashed, stagingDir, staging, dirs, store, out, conn,
                   quits, entries, hash, sha, calls, cached, before, peers>>
    /\ UNCHANGED <<input, result>>

\* The caller takes the result of Fetch.
FetchReturn(p) ==
    /\ Running(p, "done")
    /\ pc' = [pc EXCEPT ![p] = "idle"]
    /\ ret' = [ret EXCEPT ![p] = "none"]
    /\ first' = [first EXCEPT ![p] = NoError]
    /\ Locals(p)
    /\ UNCHANGED <<s, crashed, fsVars, calls, fetched>>
    /\ UNCHANGED <<input, result>>

\* The process is interrupted inside Fetch; the system closes what it held.
Crash(p) ==
    /\ ~crashed[p]
    /\ pc[p] \notin {"idle", "done"}
    /\ crashed' = [crashed EXCEPT ![p] = TRUE]
    /\ out' = [out EXCEPT ![p] = Closed]
    /\ conn' = [conn EXCEPT ![p] = "none"]
    /\ UNCHANGED <<s, pc, ret, first, quits, fsVars, entries, hash, sha, calls,
                   fetched, cached, before, peers>>
    /\ UNCHANGED <<input, result>>

\* A new build invocation takes the place of the interrupted one.
Restart(p) ==
    /\ crashed[p]
    /\ crashed' = [crashed EXCEPT ![p] = FALSE]
    /\ pc' = [pc EXCEPT ![p] = "idle"]
    /\ s' = [s EXCEPT ![p] = NoSource]
    /\ fetched' = [fetched EXCEPT ![p] = FALSE]
    /\ Locals(p)
    /\ UNCHANGED <<ret, first, fsVars, calls>>
    /\ UNCHANGED <<input, result>>

Step(p) ==
    \/ Construct(p)
    \/ FetchCall(p)
    \/ Stage(p)
    \/ CurlCreate(p)
    \/ CurlPerform(p)
    \/ FtpDial(p)
    \/ FtpLogin(p)
    \/ FtpList(p)
    \/ FtpRetr(p)
    \/ FtpCreate(p)
    \/ FtpCopy(p)
    \/ Hash(p)
    \/ MkdirTarget(p)
    \/ Rename(p)
    \/ Sha1(p)
    \/ Symlink(p)
    \/ FetchReturn(p)
    \/ Crash(p)
    \/ Restart(p)

\* Build invocations run concurrently on the shared source directory.
Next == \E p \in Procs : Step(p)

Spec == Init /\ [][Next]_vars

\* One build invocation at a time: a Fetch runs from call to return (or to
\* its interruption and restart) with no other process inside Fetch.
Alone(p) == \A q \in Procs \ {p} : pc[q] = "idle"

NextSeq ==
    \E p \in Procs :
       \/ Alone(p) /\ Construct(p)
       \/ Alone(p) /\ FetchCall(p)
       \/ Alone(p) /\ Stage(p)
       \/ Alone(p) /\ CurlCreate(p)
       \/ Alone(p) /\ CurlPerform(p)
       \/ Alone(p) /\ FtpDial(p)
       \/ Alone(p) /\ FtpLogin(p)
       \/ Alone(p) /\ FtpList(p)
       \/ Alone(p) /\ FtpRetr(p)
       \/ Alone(p) /\ FtpCreate(p)
       \/ Alone(p) /\ FtpCopy(p)
       \/ Alone(p) /\ Hash(p)
       \/ Alone(p) /\ MkdirTarget(p)
       \/ Alone(p) /\ Rename(p)
       \/ Alone(p) /\ Sha1(p)
       \/ Alone(p) /\ Symlink(p)
       \/ Alone(p) /\ FetchReturn(p)
       \/ Alone(p) /\ Crash(p)
       \/ Alone(p) /\ Restart(p)

SpecSeq == Init /\ [][NextSeq]_vars

(* ------------------- NewSimple, download and Login --------------------- *)

\* The characters of a path, and the paths of URIs NewSimple accepts.
PathChars == {"/", "a", "b"}
Paths == UNION { [1..n -> PathChars] : n \in 0..MaxPathLen }

\* The schemes of parsed URIs (url.Parse lower-cases them); "" is a URI
\* without one.
Schemes == {"", "ftp", "ftps", "http", "https", "file"}

\* The user information of parsed URIs.
Users ==
    {NoUser}
    \cup { UserInfo(n, FALSE, "") : n \in {"", "anonymous", "bob"} }
    \cup { UserInfo(n, TRUE, w) : n \in {"", "anonymous", "bob"},
                                  w \in {"", "anonymous", "pw"} }

fetchVars ==
    <<s, pc, ret, crashed, stagingDir, staging, dirs, store, links, out, conn,
      entries, hash, sha, calls, fetched, cached, before, peers, first, quits>>

InitURI ==
    /\ InitFetch
    /\ input \in [Scheme : Schemes, Path : Paths, User : Users, Body : {"a"}]
    /\ result = NoResult

\* NewSimple(input, validator, legacy): the File of the source it returns.
ConstructURI ==
    /\ result.stage = "none"
    /\ result' = [result EXCEPT !.stage = "constructed",
                                !.File = NewSimple(input, Unmatched, FALSE).File]
    /\ UNCHANGED <<input, fetchVars>>

\* download(destination) of that source: the backend it enters.
DispatchURI ==
    /\ result.stage = "constructed"
    /\ result' = [result EXCEPT
                    !.stage = "dispatched",
                    !.backend = download(NewSimple(input, Unmatched, FALSE))]
    /\ UNCHANGED <<input, fetchVars>>

\* downloadFTP up to client.Login(username, password).
LoginURI ==
    /\ result.stage = "dispatched"
    /\ result.backend = "ftp_dial"
    /\ result' = [result EXCEPT
                    !.stage = "sent",
                    !.username = Credentials(input.User).username,
                    !.password = Credentials(input.User).password]
    /\ UNCHANGED <<input, fetchVars>>

NextURI == ConstructURI \/ DispatchURI \/ LoginURI

SpecURI == InitURI /\ [][NextURI]_vars

(* ------------------------------- claims -------------------------------- *)

\* The steps of Fetch that belong to a transfer backend.
BackendSteps ==
    {"curl_create", "curl_perform", "ftp_dial", "ftp_login", "ftp_list",
     "ftp_retr", "ftp_create", "ftp_copy"}

Done(p) == pc[p] = "done"
Succeeded(p) == pc[p] = "done" /\ ret[p] = "ok"
Failed(p) == pc[p] = "done" /\ ret[p] # "ok"

\* The errors that the server or the system decides, whatever else runs.
Environment == {"EIO", "ECOUNT"}

\* The canonical path of the bytes data under the file name of src.
Canonical(src, data) == <<SHA256Hex(data), src.File>>

\* C1: a Fetch of a source that an earlier Fetch of the same source has
\* fetched with success, and that begins when IsFetched() holds, returns
\* without entering a transfer backend.
C1_SecondFetchSkipsTransfer ==
    \A p \in Procs : fetched[p] /\ cached[p] => pc[p] \notin BackendSteps

C3_ErrorCommitsNothing ==
    \A p \in Procs : Failed(p) => DOMAIN store = DOMAIN before.store

\* The steps of Fetch from the end of the staged write to the completion of
\* the rename, and the steps reached once the rename has completed.
BeforeRename == {"hash", "mkdir", "rename"}
AfterRename == {"sha1", "symlink"}

\* C4: a Fetch interrupted between the end of the staged write and the
\* completion of the rename leaves either the staging file and no canonical
\* entry for its bytes, or the canonical entry, correctly hashed, and no
\* staging file.
C4_CrashAtomic ==
    \A p \in Procs :
        crashed[p] /\ pc[p] \in BeforeRename \cup AfterRename =>
            LET f == s[p].File
                staged == f \in DOMAIN staging
                h == IF staged THEN SHA256Hex(staging[f]) ELSE hash[p]
                committed == <<h, f>> \in DOMAIN store
            IN  \/ staged /\ ~committed
                \/ ~staged /\ committed /\ SHA256Hex(store[<<h, f>>]) = h

\* C5: a Fetch that ran while another Fetch of the same source was running
\* returns success unless the environment failed it, and once both have
\* returned with success the canonical path holds the artifact.
C5_SameHashRaceBenign ==
    \A p \in Procs :
        Done(p) /\ s[p] \in peers[p] =>
            /\ ret[p] \in {"ok"} \cup Environment
            /\ (\A q \in Procs : Succeeded(q) /\ s[q] = s[p]) =>
                   /\ Canonical(s[p], Remote(s[p])) \in DOMAIN store
                   /\ store[Canonical(s[p], Remote(s[p]))] = Remote(s[p])

\* C6: a Fetch that ran while only Fetches of artifacts with other SHA-256
\* digests were running, and that returns success, leaves the bytes it
\* downloaded at SourceDir/<their SHA-256>/File, whatever the file names.
C6_DistinctHashesIndependent ==
    \A p \in Procs :
        (/\ Succeeded(p)
         /\ peers[p] # {}
         /\ \A src \in peers[p] : src.URI.Body # s[p].URI.Body) =>
            /\ Canonical(s[p], Remote(s[p])) \in DOMAIN store
            /\ store[Canonical(s[p], Remote(s[p]))] = Remote(s[p])

\* C7: after a Fetch of a legacy source returns success, SourceDir/<SHA-1 of
\* the bytes> is a symbolic link to the directory <SHA-256 of the bytes>, and
\* both names lead to the one committed file; a Fetch of a source that is not
\* legacy leaves the symbolic links as they were.
C7_LegacyAlias ==
    \A p \in Procs :
        Succeeded(p) =>
            LET data == Remote(s[p])
                weak == SHA1Hex(data)
                strong == SHA256Hex(data)
            IN  IF s[p].legacy
                THEN /\ weak \in DOMAIN links
                     /\ links[weak] = strong
                     /\ strong \in dirs
                     /\ GetPath(s[p], weak) = Canonical(s[p], data)
                     /\ Canonical(s[p], data) \in DOMAIN store
                     /\ store[Canonical(s[p], data)] = data
                ELSE links = before.links

\* C7 witness: a Fetch of a legacy source has returned success.
C7_Witness ==
    \E p \in Procs : Succeeded(p) /\ s[p].legacy /\ links # Empty

\* The alias step of p's Fetch ran and found SourceDir/sha[p] pointing
\* somewhere else than at hash[p].
AliasCollision(p) ==
    /\ Done(p)
    /\ sha[p] # NoHash
    /\ sha[p] \in DOMAIN before.links
    /\ before.links[sha[p]] # hash[p]

\* C8: when the alias step finds at SourceDir/<SHA-1> an entry that points to
\* another directory than SourceDir/<SHA-256>, Fetch returns an error and the
\* entry is as it was.
C8_AliasCollisionFails ==
    \A p \in Procs :
        AliasCollision(p) => Failed(p) /\ links = before.links

\* C8 witness: the alias step has run into an entry with another target.
C8_Witness == \E p \in Procs : AliasCollision(p)

\* C9: when the FTP listing has 0 entries, or 2 or more, the backend returns
\* an error and the destination file is what it was before the call: not
\* created, not truncated, not written, no handle on it.
C9_FtpAmbiguous ==
    \A p \in Procs :
        entries[p] \notin {-1, 1} =>
            /\ Failed(p)
            /\ ret[p] = "ECOUNT"
            /\ staging = before.staging
            /\ ~out[p].open

\* C9 witness: a listing of several entries has been answered while the
\* staging directory holds a file of that name, left by an earlier call.
C9_Witness ==
    \E p \in Procs :
        /\ entries[p] > 1
        /\ s[p].File \in DOMAIN staging

\* C10: after Fetch returns success, IsFetched() holds: the path that
\* GetBindConfiguration gives as BindSource exists.
C10_FetchedAfterSuccess ==
    \A p \in Procs : Succeeded(p) => IsFetched(s[p]) /\ PathExists(BindSource(s[p]))

\* The final segment of a path: what follows its last "/".
FinalSegment(path) ==
    LET n == CHOOSE k \in 0..Len(path) :
                /\ \A i \in (Len(path) - k + 1)..Len(path) : path[i] # "/"
                /\ k < Len(path) => path[Len(path) - k] = "/"
    IN  SubSeq(path, Len(path) - n + 1, Len(path))

\* The longest prefix of a path that does not end in "/".
Trimmed(path) ==
    LET n == CHOOSE k \in 0..Len(path) :
                /\ k > 0 => path[k] # "/"
                /\ \A i \in (k + 1)..Len(path) : path[i] = "/"
    IN  SubSeq(path, 1, n)

\* C11 as stated: for every URI NewSimple accepts, File is the final segment
\* of the URI's path, also when the path is empty or ends with a slash.
C11_FileIsFinalSegment ==
    result.stage # "none" => result.File = FinalSegment(input.Path)

\* C11, amended: File is the final segment of the path when the path is not
\* empty and does not end with a slash; trailing slashes are dropped before
\* the final segment is taken; File is "." for the empty path and "/" for a
\* path of slashes only, and is never empty.
C11_FileIsBase ==
    result.stage # "none" =>
        LET path == input.Path IN
        /\ result.File # <<>>
        /\ path = <<>> => result.File = <<".">>
        /\ path # <<>> /\ Trimmed(path) = <<>> => result.File = <<"/">>
        /\ Trimmed(path) # <<>> => result.File = FinalSegment(Trimmed(path))

\* NewSimple was given a path that ends with a slash after a name.
C11_Witness ==
    /\ result.stage = "constructed"
    /\ input.Path = <<"/", "a", "/">>
    /\ result.File = <<"a">>

\* C12: dispatch is total on the parsed scheme: "ftp" enters the FTP backend,
\* every other scheme, the empty one included, enters the generic backend,
\* and dispatch never ends the call with an error of its own.
C12_DispatchTotal ==
    result.stage \in {"dispatched", "sent"} =>
        /\ result.backend \in {"ftp_dial", "curl_create"}
        /\ result.backend = "ftp_dial" <=> input.Scheme = "ftp"

\* A URI without a scheme was dispatched to the generic backend.
C12_Witness ==
    /\ result.stage = "dispatched"
    /\ input.Scheme = ""
    /\ result.backend = "curl_create"

AfterBackend == {"hash", "mkdir", "rename", "sha1", "symlink"}

\* The staged file of p holds the first chunks of what the server delivers.
Partial(p) ==
    /\ s[p].File \in DOMAIN staging
    /\ staging[s[p].File] = SubSeq(Remote(s[p]), 1, Len(staging[s[p].File]))

\* C13: when the download step of Fetch fails, Fetch returns that error, no
\* hash is computed, no directory made, nothing renamed or linked, the
\* staging file is not deleted (what was written stays at staging/File) and
\* the source directory is as it was when the call began.
C13_DownloadFailureStops ==
    \A p \in Procs :
        first[p].step \in BackendSteps =>
            /\ Done(p) /\ ret[p] = first[p].err
            /\ hash[p] = NoHash /\ sha[p] = NoHash
            /\ dirs = before.dirs /\ store = before.store
            /\ links = before.links
            /\ DOMAIN before.staging \subseteq DOMAIN staging
            /\ first[p].step \in {"curl_perform", "ftp_copy"} => Partial(p)

\* A transfer failed after its first chunk, and the chunk is still staged.
C13_Witness ==
    \E p \in Procs :
        /\ Done(p) /\ first[p].step = "ftp_copy"
        /\ staging[s[p].File] = <<"b">>

\* C14: Fetch returns success only if every step succeeded: the failure of
\* any step (staging mkdir, download, SHA-256, target mkdir, rename, SHA-1,
\* symlink) ends the call with the error of that first failing step, and no
\* later step has run: what the later steps would write is untouched.
C14_FirstFailureReturned ==
    \A p \in Procs :
        /\ Succeeded(p) => first[p] = NoError
        /\ first[p] # NoError =>
              /\ Done(p) /\ ret[p] = first[p].err
              /\ first[p].step = "stage" => staging = before.staging
              /\ first[p].step \in BackendSteps \cup {"stage", "hash"} =>
                    hash[p] = NoHash /\ dirs = before.dirs
              /\ first[p].step \notin {"sha1", "symlink"} =>
                    store = before.store
              /\ first[p].step # "symlink" => sha[p] = NoHash
              /\ links = before.links

\* The SHA-1 hashing failed after the rename, and Fetch returned its error
\* without making the alias.
C14_Witness ==
    \E p \in Procs :
        /\ Done(p) /\ first[p].step = "sha1" /\ ret[p] = "EIO"
        /\ store # before.store

\* C15: after a Fetch that ran alone returns success, there is no file at
\* staging/File: the staged file was moved to the canonical path.
C15_StagedFileMoved ==
    \A p \in Procs :
        Succeeded(p) =>
            /\ s[p].File \notin DOMAIN staging
            /\ <<TgtDir(hash[p]), s[p].File>> \in DOMAIN store

\* A Fetch succeeded that found a staged file left by an earlier failure.
C15_Witness ==
    \E p \in Procs :
        /\ Succeeded(p)
        /\ s[p].File \in DOMAIN before.staging
        /\ s[p].File \notin DOMAIN staging

\* p's Fetch began with its source fetched by an earlier call of the same
\* legacy descriptor: canonical entry committed, alias pointing to it.
Refetch(p) ==
    /\ fetched[p] /\ s[p].legacy
    /\ \E n \in DOMAIN before.links :
         /\ <<before.links[n], s[p].File>> \in DOMAIN before.store
         /\ before.store[<<before.links[n], s[p].File>>] = Remote(s[p])
         /\ n = SHA1Hex(Remote(s[p]))
         /\ before.links[n] = SHA256Hex(Remote(s[p]))

\* C16: a second Fetch of a legacy descriptor, after the first succeeded,
\* returns success (unless the environment fails) and leaves the canonical
\* entry and the alias as they were.
C16_LegacyRefetch ==
    \A p \in Procs :
        Done(p) /\ Refetch(p) =>
            /\ ret[p] \in {"ok"} \cup Environment
            /\ links = before.links

\* C17: in the FTP backend the connection is released (Quit) exactly once on
\* every exit path after a successful dial, and is neither made nor released
\* when the dial fails; before the exit it is open and not released.
C17_FtpQuitOnce ==
    \A p \in Procs :
        s[p].URI.Scheme = "ftp" /\ ~crashed[p] =>
            /\ pc[p] \in {"ftp_login", "ftp_list", "ftp_retr", "ftp_create",
                           "ftp_copy"} =>
                  conn[p] = "open" /\ quits[p] = 0
            /\ pc[p] \in AfterBackend => conn[p] = "quit" /\ quits[p] = 1
            /\ Done(p) =>
                  IF first[p].step \in {"stage", "ftp_dial"}
                  THEN conn[p] = "none" /\ quits[p] = 0
                  ELSE conn[p] = "quit" /\ quits[p] = 1

\* The FTP backend left on a listing of two entries, with one Quit.
C17_Witness ==
    \E p \in Procs :
        /\ Done(p) /\ first[p].step = "ftp_list" /\ ret[p] = "ECOUNT"
        /\ conn[p] = "quit" /\ quits[p] = 1

\* C19: no backend returns with its destination file open: once the backend
\* has returned, on success or with an error, the handle is closed.
C19_DestinationClosed ==
    \A p \in Procs :
        pc[p] \in AfterBackend \cup {"done"} => ~out[p].open

====
